---- MODULE Spec2Model ----
(***************************************************************************)
(* Eureka Pitch Scorer (src/app.py): the Streamlit script's session state, *)
(* the "Run Evaluation" handler, the model fallback loop of analyze_pitch  *)
(* and get_case_studies, clean_json_response, json.loads on a JSON subset  *)
(* and the result display.                                                 *)
(*                                                                         *)
(* Texts are sequences of one-character strings.  Python's None is the     *)
(* model value None; a JSON value is a tagged record [t, v].               *)
(***************************************************************************)
EXTENDS Integers, Sequences, FiniteSets, TLC

VARIABLES
    analysis_data,   \* st.session_state["analysis_data"]
    pc,              \* position of the script: "idle", "invoke", "returned"
    fn,              \* function whose fallback loop runs: analyze_pitch / get_case_studies
    extracted_text,  \* extract_text's result in the last run: None or a text length
    m,               \* index into model_options of the loop variable m
    form,            \* naming form about to be tried for m: "bare" / "prefixed"
    attempts,        \* remote invocations of the current call, in order
    raw_result,      \* value returned by the fallback loop: None or a text
    parse,           \* what the handler's try block did: "skipped", "ok", "error"
    ui,              \* what the last script run put on the page
    x,               \* input text of the normalisation specification
    norm             \* results of the normalisation specification

vars == <<analysis_data, pc, fn, extracted_text, m, form, attempts, raw_result,
          parse, ui, x, norm>>

\* Python values: None, str, int, dict, list
None == [t |-> "None"]
Str(chars) == [t |-> "str", v |-> chars]
Num(n) == [t |-> "num", v |-> n]
Dict(f) == [t |-> "obj", v |-> f]
List(s) == [t |-> "arr", v |-> s]

-----------------------------------------------------------------------------
(* Texts *)

\* the backquote character (a code fence is three of them)
BT == "BQ"
NL == "\n"
SP == " "
QT == "\""

\* whitespace removed by str.strip() and skipped by json.loads
Ws == {SP, NL, "\t", "\r"}

StartsWith(t, i, p) ==
    /\ i + Len(p) - 1 <= Len(t)
    /\ SubSeq(t, i, i + Len(p) - 1) = p

FenceJson == <<BT, BT, BT, "j", "s", "o", "n">>
Fence == <<BT, BT, BT>>

Min(S) == CHOOSE j \in S : \A k \in S : j <= k
Max(S) == CHOOSE j \in S : \A k \in S : k <= j

\* where pattern p matches in t at or after position i
Matches(t, i, p) == { j \in i..Len(t) : StartsWith(t, j, p) }

\* re.sub of the pattern BQ BQ BQ json NL? by '' from position i: the leftmost
\* match is removed, with the optional newline when present, and the scan
\* goes on after it
RECURSIVE SubFenceJson(_, _)
SubFenceJson(t, i) ==
    IF Matches(t, i, FenceJson) = {} THEN SubSeq(t, i, Len(t))
    ELSE LET j == Min(Matches(t, i, FenceJson))
             after == IF j + 7 <= Len(t) /\ t[j + 7] = NL THEN j + 8 ELSE j + 7 IN
         SubSeq(t, i, j - 1) \o SubFenceJson(t, after)

\* re.sub of the pattern BQ BQ BQ by '' from position i
RECURSIVE SubFence(_, _)
SubFence(t, i) ==
    IF Matches(t, i, Fence) = {} THEN SubSeq(t, i, Len(t))
    ELSE LET j == Min(Matches(t, i, Fence)) IN
         SubSeq(t, i, j - 1) \o SubFence(t, j + 3)

\* str.strip()
Strip(t) ==
    LET keep == { j \in 1..Len(t) : t[j] \notin Ws } IN
    IF keep = {} THEN <<>> ELSE SubSeq(t, Min(keep), Max(keep))

\* faulty variant: the closing fence is not removed
clean_json_response_keepfence(response_text) ==
    Strip(SubFenceJson(response_text, 1))

clean_json_response(response_text) ==
    Strip(SubFence(SubFenceJson(response_text, 1), 1))

-----------------------------------------------------------------------------
(* json.loads on the JSON subset of objects, arrays, strings without       *)
(* escapes, non-negative integers and null                                 *)

Digits == <<"0", "1", "2", "3", "4", "5", "6", "7", "8", "9">>
IsDigit(c) == \E d \in 1..10 : Digits[d] = c
DigitVal(c) == (CHOOSE d \in 1..10 : Digits[d] = c) - 1

Fail == [ok |-> FALSE, val |-> None, next |-> 0]
Ok(value, next) == [ok |-> TRUE, val |-> value, next |-> next]

\* the first position at or after i that holds no whitespace
SkipWs(t, i) ==
    LET stop == { j \in i..Len(t) : t[j] \notin Ws } IN
    IF stop = {} THEN Len(t) + 1 ELSE Min(stop)

\* position of the quote closing the string whose body starts at i; 0 when the
\* string is unterminated or holds a control character
ScanString(t, i) ==
    LET stop == { j \in i..Len(t) : t[j] \in {QT, NL, "\t", "\r"} } IN
    IF stop = {} THEN 0
    ELSE IF t[Min(stop)] = QT THEN Min(stop) ELSE 0

\* the integer whose digits start at i, given the value read so far
RECURSIVE ScanInt(_, _, _)
ScanInt(t, i, acc) ==
    IF i <= Len(t) /\ IsDigit(t[i])
    THEN ScanInt(t, i + 1, 10 * acc + DigitVal(t[i]))
    ELSE Ok(Num(acc), i)

RECURSIVE ParseValue(_, _)
RECURSIVE ParseElements(_, _, _)
RECURSIVE ParseMembers(_, _, _)

ParseValue(t, i0) ==
    LET i == SkipWs(t, i0) IN
    IF i > Len(t) THEN Fail
    ELSE IF t[i] = QT
         THEN LET j == ScanString(t, i + 1) IN
              IF j = 0 THEN Fail ELSE Ok(Str(SubSeq(t, i + 1, j - 1)), j + 1)
    ELSE IF IsDigit(t[i])
         THEN IF t[i] = "0" /\ i + 1 <= Len(t) /\ IsDigit(t[i + 1])
              THEN Fail
              ELSE ScanInt(t, i, 0)
    ELSE IF StartsWith(t, i, <<"n", "u", "l", "l">>) THEN Ok(None, i + 4)
    ELSE IF t[i] = "["
         THEN LET k == SkipWs(t, i + 1) IN
              IF k <= Len(t) /\ t[k] = "]"
              THEN Ok(List(<<>>), k + 1)
              ELSE ParseElements(t, i + 1, <<>>)
    ELSE IF t[i] = "{"
         THEN LET k == SkipWs(t, i + 1) IN
              IF k <= Len(t) /\ t[k] = "}"
              THEN Ok(Dict(<<>>), k + 1)
              ELSE ParseMembers(t, i + 1, <<>>)
    ELSE Fail

ParseElements(t, i, acc) ==
    LET r == ParseValue(t, i) IN
    IF ~r.ok THEN Fail
    ELSE LET k == SkipWs(t, r.next) IN
         IF k > Len(t) THEN Fail
         ELSE IF t[k] = "," THEN ParseElements(t, k + 1, Append(acc, r.val))
         ELSE IF t[k] = "]" THEN Ok(List(Append(acc, r.val)), k + 1)
         ELSE Fail

\* a repeated key keeps its last value
ParseMembers(t, i, acc) ==
    LET k0 == SkipWs(t, i) IN
    IF k0 > Len(t) \/ t[k0] # QT THEN Fail
    ELSE LET j == ScanString(t, k0 + 1) IN
         IF j = 0 THEN Fail
         ELSE LET key == SubSeq(t, k0 + 1, j - 1)
                  c == SkipWs(t, j + 1) IN
              IF c > Len(t) \/ t[c] # ":" THEN Fail
              ELSE LET r == ParseValue(t, c + 1) IN
                   IF ~r.ok THEN Fail
                   ELSE LET k == SkipWs(t, r.next)
                            now == (key :> r.val) @@ acc IN
                        IF k > Len(t) THEN Fail
                        ELSE IF t[k] = "," THEN ParseMembers(t, k + 1, now)
                        ELSE IF t[k] = "}" THEN Ok(Dict(now), k + 1)
                        ELSE Fail

\* json.loads: ok is FALSE where it raises JSONDecodeError
json_loads(t) ==
    LET r == ParseValue(t, 1) IN
    IF r.ok /\ SkipWs(t, r.next) > Len(t)
    THEN [ok |-> TRUE, val |-> r.val]
    ELSE [ok |-> FALSE, val |-> None]

-----------------------------------------------------------------------------
(* Response texts: the JSON the prompt of analyze_pitch asks for, its      *)
(* fenced forms, and texts that are no ScoreReport                         *)

K_reviews == <<"r", "e", "v", "i", "e", "w", "s">>
K_question == <<"q", "u", "e", "s", "t", "i", "o", "n">>
K_score == <<"s", "c", "o", "r", "e">>
K_reasoning == <<"r", "e", "a", "s", "o", "n", "i", "n", "g">>
K_total_score == <<"t", "o", "t", "a", "l", "_", "s", "c", "o", "r", "e">>
K_hard_truth == <<"h", "a", "r", "d", "_", "t", "r", "u", "t", "h">>

Quoted(chars) == <<QT>> \o chars \o <<QT>>

RECURSIVE NumText(_)
NumText(n) ==
    IF n < 10 THEN <<Digits[n + 1]>>
    ELSE NumText(n \div 10) \o <<Digits[(n % 10) + 1]>>

\* {"question":"Q","score":<score>,"reasoning":"r"}
ReviewText(score) ==
    <<"{">> \o Quoted(K_question) \o <<":">> \o Quoted(<<"Q">>) \o <<",">>
    \o Quoted(K_score) \o <<":">> \o NumText(score) \o <<",">>
    \o Quoted(K_reasoning) \o <<":">> \o Quoted(<<"r">>) \o <<"}">>

RECURSIVE ReviewsText(_)
ReviewsText(scores) ==
    IF scores = <<>> THEN <<>>
    ELSE IF Len(scores) = 1 THEN ReviewText(scores[1])
    ELSE ReviewText(scores[1]) \o <<",">> \o ReviewsText(SubSeq(scores, 2, Len(scores)))

RECURSIVE Sum(_)
Sum(scores) ==
    IF scores = <<>> THEN 0 ELSE scores[1] + Sum(SubSeq(scores, 2, Len(scores)))

\* {"reviews":[...],"total_score":<sum>,"hard_truth":"<truth>"}, with gap
\* put after every separator of the top-level object
ReportText(scores, truth, gap) ==
    <<"{">> \o gap \o Quoted(K_reviews) \o <<":">> \o gap
    \o <<"[">> \o ReviewsText(scores) \o <<"]">> \o <<",">> \o gap
    \o Quoted(K_total_score) \o <<":">> \o gap \o NumText(Sum(scores)) \o <<",">> \o gap
    \o Quoted(K_hard_truth) \o <<":">> \o gap \o Quoted(truth) \o gap \o <<"}">>

\* the fenced forms of a text: an opening fence, tagged json or not, followed
\* by a newline or not, and a closing fence
Fenced(t) ==
    { open \o t \o close :
        open \in {FenceJson \o <<NL>>, FenceJson, Fence \o <<NL>>, Fence},
        close \in {<<NL>> \o Fence, Fence, <<NL>> \o Fence \o <<NL>>} }

MaxReviews == 2
MaxPieces == 3

ScoreSeqs == UNION { [1..n -> 1..3] : n \in 0..MaxReviews }

Truths == { <<"T">>, <<"a", BT, BT, BT, "b">>, <<BT, BT, BT, "j", "s", "o", "n", SP, "x">> }

Gaps == { <<>>, <<SP>>, <<NL>> }

\* well-formed ScoreReport-shaped JSON texts
WellFormed ==
    { ReportText(scores, truth, gap) : scores \in ScoreSeqs, truth \in Truths, gap \in Gaps }

Pieces == { <<BT>>, <<BT, BT>>, FenceJson, <<"j", "s", "o", "n">>, <<NL>>, <<SP>>, <<"{", "}">> }

RECURSIVE Concat(_)
Concat(ps) == IF ps = <<>> THEN <<>> ELSE ps[1] \o Concat(SubSeq(ps, 2, Len(ps)))

\* arbitrary texts built from fence fragments
PieceTexts == { Concat(ps) : ps \in UNION { [1..n -> Pieces] : n \in 0..MaxPieces } }

-----------------------------------------------------------------------------
(* The normalisation of a response as the Run Evaluation handler does it   *)

NoNorm == [done |-> FALSE]

\* json.loads(clean_json_response(raw_result))
normalize(raw) == json_loads(clean_json_response(raw))

NormInit ==
    /\ x \in WellFormed \cup PieceTexts
    /\ norm = NoNorm

Normalize ==
    /\ norm = NoNorm
    /\ norm' = [done |-> TRUE,
                plain |-> normalize(x),
                fenced |-> { normalize(f) : f \in Fenced(x) },
                once |-> clean_json_response(x),
                twice |-> clean_json_response(clean_json_response(x))]
    /\ UNCHANGED x

-----------------------------------------------------------------------------
(* The remote endpoint and the fallback loop of analyze_pitch and          *)
(* get_case_studies                                                        *)

\* faulty variant: the candidates in another order
model_options_reordered ==
    <<"gemini-2.0-flash", "gemini-2.5-flash", "gemini-1.5-pro", "gemini-1.5-flash">>

model_options ==
    <<"gemini-2.5-flash", "gemini-2.0-flash", "gemini-1.5-pro", "gemini-1.5-flash">>

\* faulty variant: the namespaced form is tried first
Identifier_prefixfirst(name, f) == IF f = "bare" THEN "models/" \o name ELSE name

\* the identifier given to genai.GenerativeModel for candidate name in form f
Identifier(name, f) == IF f = "bare" THEN name ELSE "models/" \o name

\* faulty variant: an exhausted loop returns an empty text
Exhausted_empty == Str(<<>>)

\* the value returned when the loop runs out of candidates
Exhausted == None

\* error details an invocation can raise
Errors == {"not-found", "quota-exceeded"}

\* texts the endpoint can answer analyze_pitch with
Responses ==
    { <<>>,
      <<"S", "o", "r", "r", "y">>,
      ReportText(<<1>>, <<"T">>, <<>>),
      FenceJson \o <<NL>> \o ReportText(<<3, 2>>, <<"T">>, <<>>) \o <<NL>> \o Fence,
      <<"{">> \o Quoted(K_total_score) \o <<":">> \o <<"1">> \o <<"}">>,
      <<"{">> \o Quoted(K_reviews) \o <<":">> \o <<"[", "{", "}", "]">> \o <<"}">>,
      <<"[", "1", "]">>,
      <<"{", "}">> }

\* texts the endpoint can answer get_case_studies with
CaseResponses == { <<"{", "}">> }

ResponsesOf(f) == IF f = "analyze_pitch" THEN Responses ELSE CaseResponses

\* one remote invocation: the identifier used, whether it returned, the error
\* detail it raised or the text it returned
Attempt(id, ok, detail, text) == [id |-> id, ok |-> ok, detail |-> detail, text |-> text]

\* every candidate was invoked in both forms and every invocation raised
AllFailed ==
    /\ Len(attempts) = 2 * Len(model_options)
    /\ \A i \in 1..Len(attempts) : ~attempts[i].ok

\* entering the loop: for m in model_options, the bare form first
EnterLoop(f) ==
    /\ pc' = "invoke"
    /\ fn' = f
    /\ m' = 1
    /\ form' = "bare"
    /\ attempts' = <<>>
    /\ raw_result' = None

\* model.generate_content(prompt).text returns: the loop returns that text
InvokeSucceeds ==
    /\ pc = "invoke"
    /\ \E r \in ResponsesOf(fn) :
        /\ attempts' = Append(attempts, Attempt(Identifier(model_options[m], form), TRUE, "none", r))
        /\ raw_result' = Str(r)
    /\ pc' = "returned"
    /\ UNCHANGED <<analysis_data, fn, extracted_text, m, form, parse, ui, x, norm>>

\* the invocation raises: the except clause tries the namespaced form, or
\* continues with the next candidate, or the loop ends
InvokeFails ==
    /\ pc = "invoke"
    /\ \E e \in Errors :
        attempts' = Append(attempts, Attempt(Identifier(model_options[m], form), FALSE, e, <<>>))
    /\ IF form = "bare"
       THEN /\ form' = "prefixed"
            /\ UNCHANGED <<m, pc, raw_result>>
       ELSE IF m < Len(model_options)
            THEN /\ m' = m + 1
                 /\ form' = "bare"
                 /\ UNCHANGED <<pc, raw_result>>
            ELSE /\ raw_result' = Exhausted
                 /\ pc' = "returned"
                 /\ UNCHANGED <<m, form>>
    /\ UNCHANGED <<analysis_data, fn, extracted_text, parse, ui, x, norm>>

-----------------------------------------------------------------------------
(* The Streamlit script: one run per user action *)

\* Python truth value of a value
Truthy(value) ==
    IF value.t = "None" THEN FALSE
    ELSE IF value.t = "num" THEN value.v # 0
    ELSE IF value.t = "obj" THEN DOMAIN value.v # {}
    ELSE value.v # <<>>

\* dict.get(key)
Get(dict, key) == IF key \in DOMAIN dict.v THEN dict.v[key] ELSE None

\* extract_text's results: None when the library raised, else the text, kept
\* by its length; Unset in a script run that does not reach the handler
Unset == [t |-> "unset"]
Text(n) == [t |-> "text", len |-> n]
TextLengths == {0, 49, 50}
TextTruthy(e) == e.t = "text" /\ e.len > 0

Color(score) ==
    IF score = Num(1) THEN "red" ELSE IF score = Num(2) THEN "orange" ELSE "green"

\* the report card loop from the i-th review on, as far as the score and its
\* color are read (lines 215-217): the rows drawn and the exception that ends it
RECURSIVE ReportCard(_, _)
ReportCard(reviews, i) ==
    IF i > Len(reviews) THEN [rows |-> <<>>, exc |-> "none"]
    ELSE LET review == reviews[i] IN
         IF review.t # "obj" THEN [rows |-> <<>>, exc |-> "TypeError"]
         ELSE IF K_score \notin DOMAIN review.v THEN [rows |-> <<>>, exc |-> "KeyError"]
         ELSE LET rest == ReportCard(reviews, i + 1)
                  row == [score |-> review.v[K_score], color |-> Color(review.v[K_score])] IN
              [rows |-> <<row>> \o rest.rows, exc |-> rest.exc]

\* for review in data['reviews'] over whatever value reviews is
Iterate(reviews) ==
    IF reviews.t = "arr" THEN ReportCard(reviews.v, 1)
    ELSE IF reviews.t \in {"obj", "str"} /\ ~Truthy(reviews) THEN [rows |-> <<>>, exc |-> "none"]
    ELSE [rows |-> <<>>, exc |-> "TypeError"]

NoReport == [shown |-> FALSE, metric |-> None, hard_truth |-> None, rows |-> <<>>, exc |-> "none"]

\* the display of st.session_state["analysis_data"]
Display(data) ==
    IF ~Truthy(data) THEN NoReport
    ELSE IF data.t # "obj" THEN [NoReport EXCEPT !.exc = "AttributeError"]
    ELSE LET head == [NoReport EXCEPT !.shown = TRUE,
                                      !.metric = Get(data, K_total_score),
                                      !.hard_truth = Get(data, K_hard_truth)] IN
         IF K_reviews \notin DOMAIN data.v THEN [head EXCEPT !.exc = "KeyError"]
         ELSE LET card == Iterate(data.v[K_reviews]) IN
              [head EXCEPT !.rows = card.rows, !.exc = card.exc]

ParseErrorMessage == "Error parsing AI response. Please try again."

\* the page a script run leaves: the st.error messages of the handler and the
\* displayed report
Page(errors, data) == [errors |-> errors, report |-> Display(data)]
Blank == [errors |-> {}, report |-> NoReport]

\* faulty variant: a new report is merged into the one held
Store_merge(old, new) ==
    IF old.t = "obj" /\ new.t = "obj" THEN Dict(new.v @@ old.v) ELSE new

\* st.session_state["analysis_data"] = <new>
Store(old, new) == new

Init ==
    /\ analysis_data = None
    /\ pc = "idle"
    /\ fn = "analyze_pitch"
    /\ extracted_text = Unset
    /\ m = 1
    /\ form = "bare"
    /\ attempts = <<>>
    /\ raw_result = None
    /\ parse = "skipped"
    /\ ui = Page({}, None)
    /\ x = <<>>
    /\ norm = NoNorm

\* a script run without a click on Run Evaluation (or with no file uploaded)
Rerun ==
    /\ pc = "idle"
    /\ extracted_text' = Unset
    /\ attempts' = <<>>
    /\ raw_result' = None
    /\ parse' = "skipped"
    /\ ui' = Page({}, analysis_data)
    /\ UNCHANGED <<analysis_data, pc, fn, m, form, x, norm>>

\* Run Evaluation is clicked with a file uploaded: the text is extracted and,
\* when it is truthy, analyze_pitch is entered; otherwise the run goes on to
\* the display
RunEvaluation ==
    /\ pc = "idle"
    /\ \E e \in {None} \cup {Text(n) : n \in TextLengths} :
        /\ extracted_text' = e
        /\ parse' = "skipped"
        /\ IF TextTruthy(e)
           THEN /\ EnterLoop("analyze_pitch")
                /\ ui' = Blank
           ELSE /\ attempts' = <<>>
                /\ raw_result' = None
                /\ ui' = Page({}, analysis_data)
                /\ UNCHANGED <<pc, fn, m, form>>
    /\ UNCHANGED <<analysis_data, x, norm>>

\* analyze_pitch has returned: a truthy result is cleaned, parsed and stored,
\* a parse error is reported; then the display
HandleResult ==
    /\ pc = "returned"
    /\ fn = "analyze_pitch"
    /\ IF Truthy(raw_result)
       THEN LET r == normalize(raw_result.v) IN
            IF r.ok
            THEN /\ analysis_data' = Store(analysis_data, r.val)
                 /\ parse' = "ok"
                 /\ ui' = Page({}, analysis_data')
            ELSE /\ parse' = "error"
                 /\ ui' = Page({ParseErrorMessage}, analysis_data)
                 /\ UNCHANGED analysis_data
       ELSE /\ ui' = Page({}, analysis_data)
            /\ UNCHANGED <<analysis_data, parse>>
    /\ pc' = "idle"
    /\ UNCHANGED <<fn, extracted_text, m, form, attempts, raw_result, x, norm>>

\* get_case_studies is called, in a script run without a click on Run
\* Evaluation
CallCaseStudies ==
    /\ pc = "idle"
    /\ EnterLoop("get_case_studies")
    /\ extracted_text' = Unset
    /\ parse' = "skipped"
    /\ ui' = Blank
    /\ UNCHANGED <<analysis_data, x, norm>>

\* get_case_studies has returned raw_result
ReturnCaseStudies ==
    /\ pc = "returned"
    /\ fn = "get_case_studies"
    /\ pc' = "idle"
    /\ ui' = Page({}, analysis_data)
    /\ UNCHANGED <<analysis_data, fn, extracted_text, m, form, attempts, raw_result, parse, x, norm>>

Next ==
    \/ Rerun
    \/ RunEvaluation
    \/ InvokeSucceeds
    \/ InvokeFails
    \/ HandleResult
    \/ CallCaseStudies
    \/ ReturnCaseStudies

Spec == Init /\ [][Next]_vars

\* the normalisation applied to every bounded input text
InitNorm ==
    /\ analysis_data = None
    /\ pc = "idle"
    /\ fn = "analyze_pitch"
    /\ extracted_text = Unset
    /\ m = 1
    /\ form = "bare"
    /\ attempts = <<>>
    /\ raw_result = None
    /\ parse = "skipped"
    /\ ui = Page({}, None)
    /\ NormInit

NextNorm == Normalize /\ UNCHANGED <<analysis_data, pc, fn, extracted_text, m, form,
                                     attempts, raw_result, parse, ui>>

SpecNorm == InitNorm /\ [][NextNorm]_vars

-----------------------------------------------------------------------------
(* Properties *)

\* the candidate order the fallback is specified to follow
CandidateOrder ==
    <<"gemini-2.5-flash", "gemini-2.0-flash", "gemini-1.5-pro", "gemini-1.5-flash">>

Last(s) == s[Len(s)]

\* C1: a successful invocation is the last one made (no later candidate is
\* called), every invocation before it failed, the invocations follow the
\* fixed candidate order, and the loop returns exactly that invocation's text.
C1_FirstSuccessReturned ==
    \A i \in 1..Len(attempts) :
        attempts[i].ok =>
            /\ i = Len(attempts)
            /\ pc # "invoke"
            /\ raw_result = Str(attempts[i].text)
            /\ \A j \in 1..(i - 1) : ~attempts[j].ok
            /\ \A j \in 1..i :
                  attempts[j].id \in { CandidateOrder[(j + 1) \div 2],
                                       "models/" \o CandidateOrder[(j + 1) \div 2] }

\* the third candidate answered after the first two failed in both forms
C1_Witness ==
    /\ pc = "returned"
    /\ Len(attempts) = 5
    /\ attempts[5].ok
    /\ attempts[5].id = "gemini-1.5-pro"
    /\ raw_result = Str(attempts[5].text)

\* C2: when every candidate failed in both forms the loop returns None, never
\* a text, the handler does not enter its parse-and-store block, and the step
\* that handles the result leaves the stored report untouched.
C2_ExhaustedIsFailure ==
    /\ [](AllFailed => /\ pc # "invoke"
                       /\ raw_result = None
                       /\ parse = "skipped")
    /\ [][(AllFailed /\ pc = "returned") => analysis_data' = analysis_data]_vars

\* a Run Evaluation finished after all eight invocations failed
C2_Witness ==
    /\ pc = "idle"
    /\ fn = "analyze_pitch"
    /\ AllFailed
    /\ extracted_text.t = "text"

\* C3: after a run in which every candidate failed, the page shows the error
\* detail of the last failed invocation.
C3_LastErrorSurfaced ==
    (pc = "idle" /\ fn = "analyze_pitch" /\ AllFailed) => Last(attempts).detail \in ui.errors

\* C4: analyze_pitch makes a remote call only for an extracted text of at
\* least 50 characters.
C4_MinLengthGate ==
    (fn = "analyze_pitch" /\ attempts # <<>>) =>
        (extracted_text.t = "text" /\ extracted_text.len >= 50)

\* C5: for a well-formed ScoreReport text, every fenced form normalises to the
\* same parsed data as the text itself; and for every text, cleaning the
\* cleaned text changes nothing.
C5_FenceRoundTrip ==
    norm.done =>
        /\ x \in WellFormed => (norm.plain.ok /\ norm.fenced = {norm.plain})
        /\ norm.twice = norm.once

\* a two-review report whose fenced forms were normalised
C5_Witness ==
    /\ norm.done
    /\ x \in WellFormed
    /\ norm.plain.ok
    /\ Len(Get(norm.plain.val, K_reviews).v) = 2
    /\ norm.fenced = {norm.plain}

\* the values the page shows
PageValues == {ui.report.metric, ui.report.hard_truth}

\* C6: when the cleaned response does not parse, the page shows the parse
\* error and the raw response text.
C6_RawShownOnParseError ==
    parse = "error" => (ParseErrorMessage \in ui.errors /\ raw_result \in PageValues)

\* a parsed value that is not a complete ScoreReport
SchemaMismatch(data) ==
    \/ data.t # "obj"
    \/ {K_reviews, K_total_score, K_hard_truth} \ DOMAIN data.v # {}
    \/ data.v[K_reviews].t # "arr"
    \/ \E i \in 1..Len(data.v[K_reviews].v) :
          LET review == data.v[K_reviews].v[i] IN
          \/ review.t # "obj"
          \/ {K_score, K_reasoning} \ DOMAIN review.v # {}

\* C7: when the response parsed but is not a complete ScoreReport, the run
\* displays a report and raises nothing.
C7_BestEffortReport ==
    (pc = "idle" /\ parse = "ok" /\ SchemaMismatch(analysis_data)) =>
        (ui.report.shown /\ ui.report.exc = "none")

\* C8 as claimed: after a Run Evaluation, a displayed report is that run's own.
C8_DisplayedReportIsThisRuns ==
    (pc = "idle" /\ extracted_text # Unset /\ ui.report.shown) => parse = "ok"

\* C8: the session holds one value; a Run Evaluation whose response is truthy
\* and parses replaces it wholesale by the parsed value; every other step,
\* a failed run included, leaves it as it was.
C8_OverwriteOrKeep ==
    [][ analysis_data' =
          IF pc = "returned" /\ fn = "analyze_pitch" /\ Truthy(raw_result)
             /\ normalize(raw_result.v).ok
          THEN normalize(raw_result.v).val
          ELSE analysis_data ]_vars

\* a run whose response did not parse left an earlier report in place
C8_Witness ==
    /\ pc = "idle"
    /\ parse = "error"
    /\ Truthy(analysis_data)
    /\ ui.report.shown

\* C9: no script run ends in an exception.
C9_NoScriptError == ui.report.exc = "none"

\* C10: the j-th invocation of a call uses the bare identifier of candidate
\* (j+1)/2 when j is odd and models/<identifier> of candidate j/2 when j is
\* even; an invocation is followed by another only when it failed; a call
\* makes at most two invocations per candidate; and every step of the loop
\* makes exactly one more invocation and stays in the loop or returns, so the
\* call has returned, with a text or with None, after at most eight of them.
C10_AttemptProtocol ==
    /\ [](/\ Len(attempts) <= 2 * Len(CandidateOrder)
          /\ \A j \in 1..Len(attempts) :
                /\ attempts[j].id = IF j % 2 = 1
                                    THEN CandidateOrder[(j + 1) \div 2]
                                    ELSE "models/" \o CandidateOrder[j \div 2]
                /\ j < Len(attempts) => ~attempts[j].ok
          /\ pc = "invoke" => Len(attempts) < 2 * Len(CandidateOrder)
          /\ (pc = "invoke" /\ attempts # <<>>) => ~Last(attempts).ok
          /\ pc = "returned" => (raw_result = None \/ raw_result.t = "str"))
    /\ [][pc = "invoke" => /\ Len(attempts') = Len(attempts) + 1
                           /\ pc' \in {"invoke", "returned"}]_vars

\* the namespaced form of the second candidate was invoked after its bare
\* form failed
C10_Witness ==
    /\ Len(attempts) = 4
    /\ attempts[3].id = "gemini-2.0-flash"
    /\ ~attempts[3].ok
    /\ attempts[4].id = "models/gemini-2.0-flash"

====
